---------------------------- MODULE Spec2Model ----------------------------
(***************************************************************************)
(* A model of the WinDaq decoder of windaq_to_excel_converter.py: the      *)
(* class windaq (its constructor, which decodes a whole file held in       *)
(* memory, and its accessors data, time, unit and chAnnotation).           *)
(*                                                                         *)
(* The file is a sequence of bytes (fcontents); every field is decoded     *)
(* from its bytes the way struct.unpack_from does, little-endian, and a    *)
(* read that does not fit the buffer raises struct.error.  The object      *)
(* under construction is the function self from attribute names to values: *)
(* an attribute exists from the statement that assigns it.  Python floats  *)
(* are modelled exactly as records [ok, v] with v the value in sixteenths; *)
(* a float the model does not represent (not a multiple of 1/16, or out of *)
(* the window of DecodeFloat) is the single value OtherFloat.              *)
(***************************************************************************)
EXTENDS Integers, Sequences, FiniteSets, TLC

VARIABLES fcontents, self, pc, exc, wdq, ret, calls, analyzer, detect_pulses

vars == <<fcontents, self, pc, exc, wdq, ret, calls, analyzer, detect_pulses>>

(***************************************************************************)
(* Bounds of the model.                                                    *)
(***************************************************************************)
MaxChannels == 2
MaxWords == 4
MaxRaw == 4
NumConsumers == 2
MaxSamples == 6

(***************************************************************************)
(* Arithmetic helpers.                                                     *)
(***************************************************************************)
RECURSIVE Pow2(_)
Pow2(k) == IF k <= 0 THEN 1 ELSE 2 * Pow2(k - 1)

\* x & y on non-negative integers, bit by bit.
RECURSIVE BitAnd(_, _)
BitAnd(x, y) ==
    IF x = 0 \/ y = 0 THEN 0
    ELSE (IF x % 2 = 1 /\ y % 2 = 1 THEN 1 ELSE 0) + 2 * BitAnd(x \div 2, y \div 2)

\* x >> k on a non-negative integer.
ShiftRight(x, k) == x \div Pow2(k)

Min(a, b) == IF a <= b THEN a ELSE b

(***************************************************************************)
(* Python floats, in sixteenths.                                           *)
(***************************************************************************)
OtherFloat == [ok |-> FALSE, v |-> 0]
Flt(v16) == [ok |-> TRUE, v |-> v16]
FromInt(n) == Flt(16 * n)
Quarter == Flt(4)

FMul(a, b) ==
    IF a.ok /\ b.ok /\ (a.v * b.v) % 16 = 0 THEN Flt((a.v * b.v) \div 16) ELSE OtherFloat

FAdd(a, b) == IF a.ok /\ b.ok THEN Flt(a.v + b.v) ELSE OtherFloat

\* A rounding toward zero in place of numpy.floor.
FFloorTowardZero(a) ==
    IF ~a.ok THEN OtherFloat
    ELSE IF a.v < 0 THEN Flt(0 - 16 * ((0 - a.v) \div 16)) ELSE Flt(16 * (a.v \div 16))

\* numpy.floor: the largest integer not above the value (\div rounds down).
FFloor(a) == IF a.ok THEN Flt(16 * (a.v \div 16)) ELSE OtherFloat

\* int(x) of a non-negative quotient num/den of two integers.
IntOfQuotient(num, den) == num \div den

(***************************************************************************)
(* struct.unpack_from(fmt, buffer, offset).                                *)
(***************************************************************************)
FmtSize(fmt) ==
    CASE fmt = "B" -> 1
      [] fmt = "c" -> 1
      [] fmt = "H" -> 2
      [] fmt = "h" -> 2
      [] fmt = "L" -> 4
      [] fmt = "l" -> 4
      [] fmt = "f" -> 4
      [] fmt = "d" -> 8
      [] fmt = "cccccc" -> 6

\* A negative offset counts from the end of the buffer.
NormOffset(buf, off) == IF off < 0 THEN off + Len(buf) ELSE off

\* Whether the read fits: otherwise unpack_from raises struct.error.
CanUnpack(buf, off, size) ==
    NormOffset(buf, off) >= 0 /\ Len(buf) - NormOffset(buf, off) >= size

ByteAt(buf, off) == buf[off + 1]

\* Little-endian unsigned integer of `size` bytes at offset `off`.
RECURSIVE UnsignedLE(_, _, _)
UnsignedLE(buf, off, size) ==
    IF size = 0 THEN 0
    ELSE ByteAt(buf, off) + 256 * UnsignedLE(buf, off + 1, size - 1)

\* Two's complement: the top byte counts as negative from 128 on.
SignedLE(buf, off, size) ==
    LET top == ByteAt(buf, off + size - 1)
    IN  UnsignedLE(buf, off, size - 1)
            + Pow2(8 * (size - 1)) * (IF top >= 128 THEN top - 256 ELSE top)

\* Whether every byte of buf[off .. off+size-1] is zero.
AllZero(buf, off, size) == \A i \in 0 .. size - 1 : ByteAt(buf, off + i) = 0

\* An IEEE 754 binary float of `size` bytes with `ebits` exponent bits whose
\* sign, exponent and leading mantissa bits sit in its two high bytes.  The
\* value is (-1)^s * (1.m) * 2^(e - bias); it is represented when the lower
\* bytes of the mantissa are zero and the value is a multiple of 1/16 within
\* 2^-4 .. 2^20.
DecodeFloat(buf, off, size, ebits) ==
    LET hi == ByteAt(buf, off + size - 1)
        lo == ByteAt(buf, off + size - 2)
        mbits == 15 - ebits
        s == hi \div 128
        e == (hi % 128) * Pow2(ebits - 7) + lo \div Pow2(mbits)
        m == lo % Pow2(mbits)
        bias == Pow2(ebits - 1) - 1
        \* value = (2^mbits + m) * 2^(e - bias - mbits); in sixteenths:
        sh == e - bias - mbits + 4
        sig == Pow2(mbits) + m
        mag == IF sh >= 0 THEN sig * Pow2(sh) ELSE sig \div Pow2(0 - sh)
    IN  IF ~AllZero(buf, off, size - 2) THEN OtherFloat
        ELSE IF e = 0 /\ m = 0 THEN Flt(0)
        ELSE IF e - bias < 0 - 4 \/ e - bias > 20 THEN OtherFloat
        ELSE IF sh < 0 /\ sig % Pow2(0 - sh) # 0 THEN OtherFloat
        ELSE Flt(IF s = 1 THEN 0 - mag ELSE mag)

\* The value struct.unpack_from(fmt, buf, off)[0] returns when the read fits.
Unpack(fmt, buf, off) ==
    LET o == NormOffset(buf, off)
    IN  CASE fmt = "B" -> UnsignedLE(buf, o, 1)
          [] fmt = "c" -> UnsignedLE(buf, o, 1)
          [] fmt = "H" -> UnsignedLE(buf, o, 2)
          [] fmt = "h" -> SignedLE(buf, o, 2)
          [] fmt = "L" -> UnsignedLE(buf, o, 4)
          [] fmt = "l" -> SignedLE(buf, o, 4)
          [] fmt = "f" -> DecodeFloat(buf, o, 4, 8)
          [] fmt = "d" -> DecodeFloat(buf, o, 8, 11)
          [] fmt = "cccccc" -> [i \in 1 .. 6 |-> ByteAt(buf, o + i - 1)]

(***************************************************************************)
(* The files the model decodes.  A file is laid out from a description p:  *)
(* the 102-byte header, the channel table, the sample words, the trailer   *)
(* and the annotation block, then cut to p.cut bytes.  The header's size   *)
(* fields say what the file holds, moved by p.headDelta and p.annoDelta.   *)
(***************************************************************************)
Zeros(n) == [i \in 1 .. n |-> 0]

RECURSIVE EncodeUnsigned(_, _)
EncodeUnsigned(v, size) ==
    IF size = 0 THEN <<>> ELSE <<v % 256>> \o EncodeUnsigned(v \div 256, size - 1)

EncodeSigned16(v) == EncodeUnsigned(IF v < 0 THEN v + 65536 ELSE v, 2)

RECURSIVE Log2(_)
Log2(x) == IF x <= 1 THEN 0 ELSE 1 + Log2(x \div 2)

\* The two high bytes <<lo, hi>> of the float whose value is v16 sixteenths
\* (one with at most 15 - ebits mantissa bits below its leading bit).
EncodeFloatHigh(v16, ebits) ==
    LET mag == IF v16 < 0 THEN 0 - v16 ELSE v16
        k == Log2(mag)
        mbits == 15 - ebits
        e == Pow2(ebits - 1) - 1 + k - 4
        m == ((mag - Pow2(k)) * Pow2(mbits)) \div Pow2(k)
    IN  IF v16 = 0 THEN <<0, 0>>
        ELSE << (e % Pow2(ebits - 7)) * Pow2(mbits) + m,
                (IF v16 < 0 THEN 128 ELSE 0) + e \div Pow2(ebits - 7) >>

EncodeDouble(v16) == Zeros(6) \o EncodeFloatHigh(v16, 11)
EncodeSingle(v16) == Zeros(2) \o EncodeFloatHigh(v16, 8)

RECURSIVE Flatten(_)
Flatten(ss) == IF ss = <<>> THEN <<>> ELSE Head(ss) \o Flatten(Tail(ss))

ChannelEntry(p, i) ==
    EncodeSingle(16) \o EncodeSingle(0)
        \o EncodeDouble(p.cs + 16 * (i - 1)) \o EncodeDouble(p.ci - 16 * (i - 1))
        \o p.unit \o <<10 * i + 1, 10 * i + 2, 10 * i + 3>> \o Zeros(p.esz - 33)

ChannelTable(p) ==
    IF p.hch < 102 THEN <<>>
    ELSE Zeros(p.hch - 102) \o Flatten([i \in 1 .. p.nent |-> ChannelEntry(p, i)])

SampleBytes(p) ==
    Flatten([k \in 1 .. Len(p.words) |-> EncodeSigned16(p.words[k])]) \o Zeros(p.odd)

FileHeader(p) ==
    LET headSize == 102 + Len(ChannelTable(p)) + p.headDelta
        dataSize == 2 * Len(p.words) + p.odd
        annoSize == Len(p.anno) + p.annoDelta
    IN  <<p.cb, 0>> \o EncodeUnsigned(p.ver, 2) \o <<p.hch, p.esz>>
            \o EncodeSigned16(headSize) \o EncodeUnsigned(dataSize, 4)
            \o EncodeUnsigned(p.trailer, 4) \o EncodeUnsigned(annoSize, 2)
            \o Zeros(10) \o EncodeDouble(p.ts)
            \o EncodeUnsigned(86400, 4) \o EncodeUnsigned(90000, 4)
            \o Zeros(56) \o EncodeUnsigned(p.flags, 2)

WholeFile(p) ==
    FileHeader(p) \o ChannelTable(p) \o SampleBytes(p) \o Zeros(p.trailer) \o p.anno

FileBytes(p) == LET whole == WholeFile(p) IN SubSeq(whole, 1, Min(p.cut, Len(whole)))

\* The raw values the sample words are drawn from.
RawVals == (0 - MaxRaw .. MaxRaw) \cup {-32768, 32767}

WrapRaw(r) == ((r + MaxRaw) % (2 * MaxRaw + 1)) - MaxRaw
\* w consecutive raw values from r0 on, wrapping within -MaxRaw .. MaxRaw.
Ramp(w, r0) == [k \in 1 .. w |-> IF k = 1 THEN r0 ELSE WrapRaw(r0 + k - 1)]

\* One annotation per channel ("a", "b", ...), each followed by a null.
AnnoFor(n) == Flatten([i \in 1 .. n |-> <<96 + i, 0>>])

BaseFile ==
    [cb |-> 1, ver |-> 144, hch |-> 102, esz |-> 36, nent |-> 1, words |-> <<>>,
     odd |-> 0, trailer |-> 0, anno |-> AnnoFor(1), flags |-> 0, ts |-> 16,
     cs |-> 16, ci |-> 0, unit |-> <<65, 0, 0, 0, 0, 0>>,
     headDelta |-> 0, annoDelta |-> 0, cut |-> 100000]

\* Channel count, version, sample block and flags.
ShapeFiles ==
    { [BaseFile EXCEPT !.nent = n, !.cb = n + k, !.ver = v, !.words = Ramp(w, 0 - MaxRaw),
                       !.odd = o, !.flags = f, !.anno = AnnoFor(n)] :
        n \in 1 .. MaxChannels, k \in {0, 32}, v \in {143, 144}, w \in 0 .. MaxWords,
        o \in 0 .. 1, f \in {0, 2, 16384, 16386} }

\* Every channel-count byte under versions around the threshold.
CountFiles ==
    { [BaseFile EXCEPT !.nent = 2, !.cb = b, !.ver = v, !.words = <<1, 2>>,
                       !.anno = AnnoFor(2)] :
        b \in 0 .. 255, v \in {0, 143, 144, 145, 65535} }

\* Time steps (sixteenths of a second), zero and negative ones included.
TimeFiles ==
    { [BaseFile EXCEPT !.nent = n, !.cb = n, !.ts = t, !.words = Ramp(w, 1),
                       !.anno = AnnoFor(n)] :
        n \in 1 .. MaxChannels, t \in {-16, 0, 4, 16, 40}, w \in 0 .. MaxWords }

\* Every raw value under both resolutions and several calibrations.
RawFiles ==
    { [BaseFile EXCEPT !.nent = n, !.cb = n, !.words = Ramp(n + 1, r), !.flags = f,
                       !.cs = c[1], !.ci = c[2], !.anno = AnnoFor(n)] :
        n \in 1 .. 2, r \in RawVals, f \in {0, 2},
        c \in {<<16, 0>>, <<32, 16>>, <<-16, 48>>, <<48, 4>>} }

\* Annotation blocks: one per channel, none, too few parts, a non-ASCII byte,
\* and an annotation size that disagrees with the block present.
AnnoFiles ==
    UNION { { [BaseFile EXCEPT !.nent = n, !.cb = n, !.words = Ramp(w, 1), !.anno = a,
                               !.annoDelta = d, !.trailer = t] :
                w \in {0, MaxChannels},
                a \in {AnnoFor(n), <<>>, <<97>>, <<97, 200, 0>>, <<195, 169, 0>>},
                d \in {0, 1}, t \in {0, 2} } :
            n \in 1 .. MaxChannels }

\* Files cut short at every length.
CutFiles ==
    { [BaseFile EXCEPT !.nent = n, !.cb = n, !.words = Ramp(n, 1), !.flags = f,
                       !.anno = AnnoFor(n), !.cut = c] :
        n \in 1 .. MaxChannels, f \in {0, 16384},
        c \in 0 .. 102 + 36 * MaxChannels + 2 * MaxChannels + 2 * MaxChannels }

\* Files whose channel table lies inside the header (offset 69, 33-byte entry).
OverlapFiles ==
    { [BaseFile EXCEPT !.hch = 69, !.esz = 33, !.cb = b, !.words = Ramp(w, 1), !.odd = o,
                       !.anno = <<>>, !.flags = f, !.cut = c] :
        b \in 1 .. 2, w \in 0 .. 1, o \in 0 .. 1, f \in {0, 2}, c \in 96 .. 105 }

\* A header size that is not where the samples are.
HeadFiles ==
    { [BaseFile EXCEPT !.nent = n, !.cb = n, !.words = Ramp(n, 1), !.anno = AnnoFor(n),
                       !.headDelta = d] :
        n \in 1 .. MaxChannels, d \in {-400, -2, 2, 40} }

\* Unit tags: padded with nulls, with spaces around or inside, with a null
\* between two letters, with control whitespace, all nulls, and a non-ASCII byte.
UnitTags ==
    { <<86, 0, 0, 0, 0, 0>>, <<32, 86, 0, 32, 0, 0>>, <<109, 0, 65, 32, 0, 0>>,
      <<9, 65, 32, 66, 10, 0>>, <<0, 0, 0, 0, 0, 0>>, <<65, 66, 67, 68, 69, 70>>,
      <<86, 200, 0, 0, 0, 0>> }

UnitFiles ==
    { [BaseFile EXCEPT !.nent = n, !.cb = n, !.words = Ramp(n, 1), !.anno = AnnoFor(n),
                       !.unit = u, !.flags = f] :
        n \in 1 .. MaxChannels, u \in UnitTags, f \in {0, 16384} }

Files ==
    ShapeFiles \cup CountFiles \cup TimeFiles \cup RawFiles \cup AnnoFiles
        \cup CutFiles \cup OverlapFiles \cup HeadFiles \cup UnitFiles

(***************************************************************************)
(* The object under construction: attribute name -> value.                 *)
(***************************************************************************)
NoAttrs == [a \in {} |-> 0]
HasAttr(obj, a) == a \in DOMAIN obj
SetAttr(obj, a, v) == [x \in DOMAIN obj \cup {a} |-> IF x = a THEN v ELSE obj[x]]
AppendAttr(obj, a, v) == [obj EXCEPT ![a] = Append(@, v)]

\* A run of reads in which a failed append is skipped, not raised.
RECURSIVE RunReadsSkipping(_, _, _)
RunReadsSkipping(buf, obj, reads) ==
    IF reads = <<>> THEN [obj |-> obj, err |-> "none"]
    ELSE LET r == Head(reads)
             fits == r.fmt = "" \/ CanUnpack(buf, r.off, FmtSize(r.fmt))
             v == IF r.fmt = "" THEN r.val ELSE Unpack(r.fmt, buf, r.off)
         IN  IF ~fits /\ r.kind = "set" THEN [obj |-> obj, err |-> "struct.error"]
             ELSE IF ~fits THEN RunReadsSkipping(buf, obj, Tail(reads))
             ELSE RunReadsSkipping(buf,
                                   IF r.kind = "set" THEN SetAttr(obj, r.attr, v)
                                   ELSE AppendAttr(obj, r.attr, v),
                                   Tail(reads))

\* A run of statements `self.<attr> = unpack_from(fmt, buf, off)[0]` (kind "set")
\* or `self.<attr>.append(...)` (kind "append"; an empty fmt appends r.val), in
\* order, up to the first read that raises struct.error.
RECURSIVE RunReads(_, _, _)
RunReads(buf, obj, reads) ==
    IF reads = <<>> THEN [obj |-> obj, err |-> "none"]
    ELSE LET r == Head(reads)
             v == IF r.fmt = "" THEN r.val ELSE Unpack(r.fmt, buf, r.off)
         IN  IF r.fmt # "" /\ ~CanUnpack(buf, r.off, FmtSize(r.fmt))
             THEN [obj |-> obj, err |-> "struct.error"]
             ELSE RunReads(buf,
                           IF r.kind = "set" THEN SetAttr(obj, r.attr, v)
                           ELSE AppendAttr(obj, r.attr, v),
                           Tail(reads))

Rd(attr, fmt, off) == [kind |-> "set", attr |-> attr, fmt |-> fmt, off |-> off, val |-> 0]
Ap(attr, fmt, off) == [kind |-> "append", attr |-> attr, fmt |-> fmt, off |-> off, val |-> 0]
ApConst(attr, v) == [kind |-> "append", attr |-> attr, fmt |-> "", off |-> 0, val |-> v]

RECURSIVE SetAll(_, _)
SetAll(obj, avs) ==
    IF avs = <<>> THEN obj ELSE SetAll(SetAttr(obj, Head(avs)[1], Head(avs)[2]), Tail(avs))

(***************************************************************************)
(* windaq.__init__, statement group by statement group.  Each operator     *)
(* gives the object after the group and the exception it raised, if any.   *)
(***************************************************************************)
VersionThreshold == 144
ChannelMask == 31
PackedBit == 16384
HiResBit == 2

\* The threshold test written > in place of >=.
ChannelCountStrict(buf) ==
    IF Unpack("H", buf, 2) > VersionThreshold
    THEN Unpack("B", buf, 0)
    ELSE BitAnd(Unpack("B", buf, 0), ChannelMask)

\* Lines 61-64: the channel count, masked to 5 bits below version 144.
ChannelCount(buf) ==
    IF Unpack("H", buf, 2) >= VersionThreshold
    THEN Unpack("B", buf, 0)
    ELSE BitAnd(Unpack("B", buf, 0), ChannelMask)

ReadCount(buf, obj) ==
    IF ~CanUnpack(buf, 2, 2) \/ ~CanUnpack(buf, 0, 1)
    THEN [obj |-> obj, err |-> "struct.error"]
    ELSE [obj |-> SetAttr(obj, "nChannels", ChannelCount(buf)), err |-> "none"]

\* Line 70: dataSize / (2 * nChannels), a float; kept as the exact quotient.
SamplesPerChannel(dataSize, nChannels) == [num |-> dataSize, den |-> 2 * nChannels]

\* The layout fields without the division of line 70.
ReadLayoutNoDivision(buf, obj) ==
    RunReads(buf, obj, << Rd("_hChannels", "B", 4), Rd("_hChannelSize", "B", 5),
                          Rd("_headSize", "h", 6), Rd("_dataSize", "L", 8),
                          [kind |-> "set", attr |-> "nSample", fmt |-> "", off |-> 0,
                           val |-> [num |-> 0, den |-> 1]] >>)

\* Lines 66-70.
ReadLayout(buf, obj) ==
    LET r == RunReads(buf, obj, << Rd("_hChannels", "B", 4), Rd("_hChannelSize", "B", 5),
                                   Rd("_headSize", "h", 6), Rd("_dataSize", "L", 8) >>)
    IN  IF r.err # "none" THEN r
        ELSE IF 2 * r.obj.nChannels = 0 THEN [obj |-> r.obj, err |-> "ZeroDivisionError"]
        ELSE [obj |-> SetAttr(r.obj, "nSample",
                              SamplesPerChannel(r.obj._dataSize, r.obj.nChannels)),
              err |-> "none"]

\* Lines 71-73.
ReadSizes(buf, obj) ==
    RunReads(buf, obj, << Rd("_trailerSize", "L", 12), Rd("_annoSize", "H", 16),
                          Rd("timeStep", "d", 28) >>)

\* Lines 75-80: both epoch fields are read, then turned into calendar times
\* (kept as the epoch seconds; the rendering as text is not modelled).
ReadStamps(buf, obj) ==
    IF ~CanUnpack(buf, 36, 4) \/ ~CanUnpack(buf, 40, 4)
    THEN [obj |-> obj, err |-> "struct.error"]
    ELSE [obj |-> SetAll(obj, << <<"fileCreatedRaw", Unpack("l", buf, 36)>>,
                                 <<"fileCreated", Unpack("l", buf, 36)>>,
                                 <<"fileWritten", Unpack("l", buf, 40)>> >>),
          err |-> "none"]

\* The flag word read two bytes early.
ReadFlagsAt98(buf, obj) ==
    IF ~CanUnpack(buf, 98, 2)
    THEN [obj |-> obj, err |-> "struct.error"]
    ELSE [obj |-> SetAll(obj, << <<"_packed", ShiftRight(BitAnd(Unpack("H", buf, 98), 16384), 14)>>,
                                 <<"_HiRes", BitAnd(Unpack("H", buf, 98), 2)>>,
                                 <<"scalingSlope", <<>> >>, <<"scalingIntercept", <<>> >>,
                                 <<"calScaling", <<>> >>, <<"calIntercept", <<>> >>,
                                 <<"engUnits", <<>> >>, <<"sampleRateDivisor", <<>> >>,
                                 <<"phyChannel", <<>> >> >>),
          err |-> "none"]

PackedFlag(word) == ShiftRight(BitAnd(word, PackedBit), 14)
HiResFlag(word) == BitAnd(word, HiResBit)

\* Lines 82-94: the flag word, then the empty per-channel lists.
ReadFlags(buf, obj) ==
    IF ~CanUnpack(buf, 100, 2)
    THEN [obj |-> obj, err |-> "struct.error"]
    ELSE [obj |-> SetAll(obj, << <<"_packed", PackedFlag(Unpack("H", buf, 100))>>,
                                 <<"_HiRes", HiResFlag(Unpack("H", buf, 100))>>,
                                 <<"scalingSlope", <<>> >>, <<"scalingIntercept", <<>> >>,
                                 <<"calScaling", <<>> >>, <<"calIntercept", <<>> >>,
                                 <<"engUnits", <<>> >>, <<"sampleRateDivisor", <<>> >>,
                                 <<"phyChannel", <<>> >> >>),
          err |-> "none"]

\* Line 97.
ChannelOffset(obj, channel) == obj._hChannels + obj._hChannelSize * channel

\* The divisor byte straight after the unit tag and the physical channel
\* straight after whichever came last.
ReadChannelInfoAdjacent(buf, obj, channel) ==
    LET o == ChannelOffset(obj, channel)
    IN  RunReads(buf, obj,
            << Ap("scalingSlope", "f", o), Ap("scalingIntercept", "f", o + 4),
               Ap("calScaling", "d", o + 4 + 4), Ap("calIntercept", "d", o + 4 + 4 + 8),
               Ap("engUnits", "cccccc", o + 4 + 4 + 8 + 8),
               IF obj._packed # 0
               THEN Ap("sampleRateDivisor", "B", o + 4 + 4 + 8 + 8 + 6)
               ELSE ApConst("sampleRateDivisor", 1),
               Ap("phyChannel", "B",
                  o + 4 + 4 + 8 + 8 + 6 + (IF obj._packed # 0 THEN 1 ELSE 0)) >>)

\* Lines 97-109: one iteration of the loop over the channel table.
ReadChannelInfo(buf, obj, channel) ==
    LET o == ChannelOffset(obj, channel)
    IN  RunReads(buf, obj,
            << Ap("scalingSlope", "f", o), Ap("scalingIntercept", "f", o + 4),
               Ap("calScaling", "d", o + 4 + 4), Ap("calIntercept", "d", o + 4 + 4 + 8),
               Ap("engUnits", "cccccc", o + 4 + 4 + 8 + 8),
               IF obj._packed # 0
               THEN Ap("sampleRateDivisor", "B", o + 4 + 4 + 8 + 8 + 6 + 1)
               ELSE ApConst("sampleRateDivisor", 1),
               Ap("phyChannel", "B", o + 4 + 4 + 8 + 8 + 6 + 1 + 1) >>)

\* str.split(sep) on a string held as its sequence of character codes.
RECURSIVE SplitOn(_, _, _)
SplitOn(str, sep, cur) ==
    IF str = <<>> THEN <<cur>>
    ELSE IF Head(str) = sep THEN <<cur>> \o SplitOn(Tail(str), sep, <<>>)
    ELSE SplitOn(Tail(str), sep, Append(cur, Head(str)))

\* Line 114.
AnnotationOffset(obj) == obj._headSize + obj._dataSize + obj._trailerSize

\* Line 117 for one i: the read raises struct.error when it does not fit, and
\* bytes.decode("utf-8") of a single byte raises from 128 on.
AnnotationByteError(buf, off) ==
    IF ~CanUnpack(buf, off, 1) THEN "struct.error"
    ELSE IF Unpack("c", buf, off) >= 128 THEN "UnicodeDecodeError"
    ELSE "none"

\* Lines 114-118.
ReadAnnotations(buf, obj) ==
    LET aOffset == AnnotationOffset(obj)
        bad == { i \in 0 .. obj._annoSize - 1 : AnnotationByteError(buf, aOffset + i) # "none" }
        first == CHOOSE i \in bad : \A j \in bad : i <= j
        aTemp == [i \in 1 .. obj._annoSize |-> Unpack("c", buf, aOffset + i - 1)]
    IN  IF bad # {}
        THEN [obj |-> obj, err |-> AnnotationByteError(buf, aOffset + first)]
        ELSE [obj |-> SetAttr(obj, "_annotations", SplitOn(aTemp, 0, <<>>)), err |-> "none"]

\* Line 123: int(self.nSample*self.nChannels).  The product of the quotient
\* and nChannels is dataSize/2 (the float product equals it for the sizes
\* and channel counts decoded here).
SampleWordCount(obj) == IntOfQuotient(obj.nSample.num * obj.nChannels, obj.nSample.den)

\* The view bound at the start of the file in place of offset _headSize.
BindDataAtZero(buf, obj) ==
    LET count == SampleWordCount(obj)
    IN  IF Len(buf) < 2 * count
        THEN [obj |-> obj, err |-> "ValueError"]
        ELSE [obj |-> SetAttr(obj, "npdata",
                              [k \in 1 .. count |-> SignedLE(buf, 2 * (k - 1), 2)]),
              err |-> "none"]

\* Lines 121-123: numpy.frombuffer raises ValueError for an offset outside the
\* buffer or a buffer too small for count items.
BindData(buf, obj) ==
    LET count == SampleWordCount(obj)
        offset == obj._headSize
    IN  IF offset < 0 \/ offset > Len(buf) \/ Len(buf) - offset < 2 * count
        THEN [obj |-> obj, err |-> "ValueError"]
        ELSE [obj |-> SetAttr(obj, "npdata",
                              [k \in 1 .. count |-> SignedLE(buf, offset + 2 * (k - 1), 2)]),
              err |-> "none"]

(***************************************************************************)
(* The accessors.                                                          *)
(***************************************************************************)
\* seq[start::step] of Python, start possibly negative, step >= 1.
PySliceFrom(seq, start, step) ==
    LET n == Len(seq)
        s0 == IF start < 0 THEN (IF start + n < 0 THEN 0 ELSE start + n) ELSE Min(start, n)
        cnt == IF s0 >= n THEN 0 ELSE (n - s0 + step - 1) \div step
    IN  [k \in 1 .. cnt |-> seq[s0 + (k - 1) * step + 1]]

\* list[i] of Python: a negative index counts from the end; IndexError outside.
PyIndexOK(list, i) == 0 - Len(list) <= i /\ i < Len(list)
PyIndex(list, i) == list[(IF i < 0 THEN i + Len(list) ELSE i) + 1]

\* Lines 132-135: the raw word as a float, times 0.25, floored unless HiRes.
ScaleRaw(hiRes, r) ==
    IF hiRes # 0 THEN FMul(FromInt(r), Quarter) ELSE FFloor(FMul(FromInt(r), Quarter))

\* The slice started at channelNumber in place of channelNumber-1.
ChannelWordsFromNumber(obj, channelNumber) ==
    PySliceFrom(obj.npdata, channelNumber, obj.nChannels)

\* Line 130.
ChannelWords(obj, channelNumber) == PySliceFrom(obj.npdata, channelNumber - 1, obj.nChannels)

\* windaq.data, lines 130-138.
DataOf(obj, channelNumber) ==
    LET data == ChannelWords(obj, channelNumber)
        temp == [k \in 1 .. Len(data) |-> ScaleRaw(obj._HiRes, data[k])]
    IN  IF ~PyIndexOK(obj.calScaling, channelNumber - 1)
        THEN [exc |-> "IndexError", val |-> <<>>]
        ELSE [exc |-> "none",
              val |-> [k \in 1 .. Len(temp) |->
                          FAdd(FMul(PyIndex(obj.calScaling, channelNumber - 1), temp[k]),
                               PyIndex(obj.calIntercept, channelNumber - 1))]]

\* The indices started at 1 in place of 0.
TimeOfFromOne(obj) ==
    [k \in 1 .. IntOfQuotient(obj.nSample.num, obj.nSample.den) |->
        FMul(FromInt(k), obj.timeStep)]

\* windaq.time, line 144: numpy.arange(0, int(self.nSample)) * self.timeStep.
TimeOf(obj) ==
    [k \in 1 .. IntOfQuotient(obj.nSample.num, obj.nSample.den) |->
        FMul(FromInt(k - 1), obj.timeStep)]

\* str.strip(): leading and trailing whitespace removed.
IsSpace(c) == c \in {9, 10, 11, 12, 13, 28, 29, 30, 31, 32}
RECURSIVE LStrip(_)
LStrip(str) == IF str # <<>> /\ IsSpace(Head(str)) THEN LStrip(Tail(str)) ELSE str
RECURSIVE RStrip(_)
RStrip(str) ==
    IF str # <<>> /\ IsSpace(str[Len(str)]) THEN RStrip(SubSeq(str, 1, Len(str) - 1)) ELSE str
Strip(str) == RStrip(LStrip(str))

\* str.replace('\x00', '').
RECURSIVE RemoveNulls(_)
RemoveNulls(str) ==
    IF str = <<>> THEN <<>>
    ELSE IF Head(str) = 0 THEN RemoveNulls(Tail(str))
    ELSE <<Head(str)>> \o RemoveNulls(Tail(str))

\* windaq.unit, lines 156-164.
UnitOf(obj, channelNumber) ==
    IF ~PyIndexOK(obj.engUnits, channelNumber - 1)
    THEN [exc |-> "IndexError", val |-> <<>>]
    ELSE LET tag == PyIndex(obj.engUnits, channelNumber - 1)
         IN  IF \E i \in 1 .. 6 : tag[i] >= 128
             THEN [exc |-> "UnicodeDecodeError", val |-> <<>>]
             ELSE [exc |-> "none", val |-> Strip(RemoveNulls(tag))]

\* windaq.chAnnotation, line 170.
AnnotationOf(obj, channelNumber) ==
    IF ~PyIndexOK(obj._annotations, channelNumber - 1)
    THEN [exc |-> "IndexError", val |-> <<>>]
    ELSE [exc |-> "none", val |-> PyIndex(obj._annotations, channelNumber - 1)]

(***************************************************************************)
(* The state machine.  pc is the statement group __init__ is at; "done" is *)
(* the constructor returned (wdq, the caller's variable of line 243, is    *)
(* bound), "error" is an exception left __init__ (exc: its type and the    *)
(* group that raised it) and the caller got no object.  ret is what the    *)
(* last accessor call returned or raised.                                  *)
(***************************************************************************)
NoExc == [type |-> "none", at |-> "none"]
NoRet == [op |-> "none", arg |-> 0, exc |-> "none", val |-> <<>>]

\* The consumers that share one decoded object, each with the frame of the
\* accessor call it is in (none: "idle"); and the pulse analyzer with the frame
\* of its detect_pulses call.  The constructor and the accessor calls of one
\* caller leave them alone.
Consumers == 1 .. NumConsumers
IdleCall ==
    [op |-> "none", channelNumber |-> 0, at |-> "idle", data |-> <<>>, temp |-> <<>>,
     tag |-> <<>>, unit |-> <<>>, exc |-> "none", val |-> <<>>]
NoCalls == [t \in Consumers |-> IdleCall]
NoAnalyzer == [df |-> [Current |-> <<>>, Time_seconds |-> <<>>], pulses |-> <<>>]
NoFrame == [at |-> "none"]
apart == <<calls, analyzer, detect_pulses>>

Init ==
    /\ fcontents \in { FileBytes(p) : p \in Files }
    /\ self = NoAttrs
    /\ pc = "count"
    /\ exc = NoExc
    /\ wdq = "unbound"
    /\ ret = NoRet
    /\ calls = NoCalls
    /\ analyzer = NoAnalyzer
    /\ detect_pulses = NoFrame

\* One statement group: its result r, then the next group or the exception.
Advance(r, at, next) ==
    /\ self' = r.obj
    /\ IF r.err = "none"
       THEN pc' = next /\ exc' = exc
       ELSE pc' = "error" /\ exc' = [type |-> r.err, at |-> at]
    /\ UNCHANGED <<fcontents, wdq, ret, apart>>

StepCount == pc = "count" /\ Advance(ReadCount(fcontents, self), "count", "layout")

StepLayout == pc = "layout" /\ Advance(ReadLayout(fcontents, self), "layout", "sizes")

StepSizes == pc = "sizes" /\ Advance(ReadSizes(fcontents, self), "sizes", "stamps")

StepStamps == pc = "stamps" /\ Advance(ReadStamps(fcontents, self), "stamps", "flags")

\* After the flags the loop of line 96 starts; over an empty range it is skipped.
StepFlags ==
    /\ pc = "flags"
    /\ Advance(ReadFlags(fcontents, self), "flags",
               IF 0 < self.nChannels THEN "channel" ELSE "annotations")

\* One iteration of the loop of line 96 (channel: the iterations done so far).
StepChannel ==
    /\ pc = "channel"
    /\ LET channel == Len(self.phyChannel)
       IN  Advance(ReadChannelInfo(fcontents, self, channel), "channel",
                   IF channel + 1 < self.nChannels THEN "channel" ELSE "annotations")

StepAnnotations ==
    pc = "annotations" /\ Advance(ReadAnnotations(fcontents, self), "annotations", "npdata")

\* The last statement of __init__; the caller's wdq is bound when it returns.
StepBindData ==
    /\ pc = "npdata"
    /\ LET r == BindData(fcontents, self)
       IN  /\ self' = r.obj
           /\ IF r.err = "none"
              THEN pc' = "done" /\ exc' = exc /\ wdq' = "windaq"
              ELSE pc' = "error" /\ exc' = [type |-> r.err, at |-> "npdata"] /\ wdq' = wdq
    /\ UNCHANGED <<fcontents, ret, apart>>

Call(op, arg, r) ==
    /\ ret' = [op |-> op, arg |-> arg, exc |-> r.exc, val |-> r.val]
    /\ UNCHANGED <<fcontents, self, pc, exc, wdq, apart>>

\* The channel numbers the accessors are called with.
ChannelArgs == 0 .. self.nChannels + 1

CallData == pc = "done" /\ \E c \in ChannelArgs : Call("data", c, DataOf(self, c))

CallTime == pc = "done" /\ Call("time", 0, [exc |-> "none", val |-> TimeOf(self)])

CallUnit == pc = "done" /\ \E c \in ChannelArgs : Call("unit", c, UnitOf(self, c))

CallChAnnotation ==
    pc = "done" /\ \E c \in ChannelArgs : Call("chAnnotation", c, AnnotationOf(self, c))

Next ==
    \/ StepCount
    \/ StepLayout
    \/ StepSizes
    \/ StepStamps
    \/ StepFlags
    \/ StepChannel
    \/ StepAnnotations
    \/ StepBindData
    \/ CallData
    \/ CallTime
    \/ CallUnit
    \/ CallChAnnotation

Spec == Init /\ [][Next]_vars

(***************************************************************************)
(* The header fields as the file states them, read byte by byte.           *)
(***************************************************************************)
FileCountByte == fcontents[1]
FileVersion == fcontents[3] + 256 * fcontents[4]
FileDataSize == fcontents[9] + 256 * fcontents[10] + 65536 * fcontents[11]
FileFlagsLow == fcontents[101]
Decoded == pc = "done" /\ wdq = "windaq"
ValidChannel(c) == c \in 1 .. self.nChannels

(***************************************************************************)
(* C1: for every channel-count byte b and version v, the decoded channel   *)
(* count is b when v >= 144 and the 5 low bits of b when v < 144; b = 37   *)
(* gives 5 under version 143 and 37 under version 144.                     *)
(***************************************************************************)
C1_ChannelCount ==
    HasAttr(self, "nChannels") =>
        /\ self.nChannels = IF FileVersion >= 144 THEN FileCountByte ELSE FileCountByte % 32
        /\ (FileCountByte = 37 /\ FileVersion = 143 => self.nChannels = 5)
        /\ (FileCountByte = 37 /\ FileVersion = 144 => self.nChannels = 37)

C1_Witness ==
    /\ HasAttr(self, "nChannels")
    /\ FileCountByte = 37 /\ FileVersion = 143 /\ self.nChannels = 5

(***************************************************************************)
(* C2: a data size that is not a multiple of 2 * channel_count makes the   *)
(* decode fail: no Recording is returned for it, and no Recording has      *)
(* channels that yield different numbers of samples.                       *)
(***************************************************************************)
C2_MalformedDataSizeFails ==
    Decoded =>
        /\ self._dataSize % (2 * self.nChannels) = 0
        /\ \A c1, c2 \in 1 .. self.nChannels :
               Len(DataOf(self, c1).val) = Len(DataOf(self, c2).val)

(***************************************************************************)
(* C3: for a decoded file whose data size is a multiple of                 *)
(* 2 * channel_count, data(c) of every channel c in 1..channel_count has   *)
(* exactly data_size / (2 * channel_count) values, and so has time().      *)
(***************************************************************************)
C3_SampleCount ==
    Decoded /\ FileDataSize % (2 * self.nChannels) = 0 =>
        /\ ret.op = "data" /\ ValidChannel(ret.arg) =>
               ret.exc = "none" /\ 2 * self.nChannels * Len(ret.val) = FileDataSize
        /\ ret.op = "time" => 2 * self.nChannels * Len(ret.val) = FileDataSize

C3_Witness ==
    /\ Decoded /\ self.nChannels = 2 /\ FileDataSize = 8
    /\ ret.op = "data" /\ ret.arg = 2 /\ Len(ret.val) = 2

\* floor(r / 4) for r = -4 .. 4.
C4_FloorTable == <<-1, -1, -1, -1, 0, 0, 0, 0, 1>>

(***************************************************************************)
(* C4: data(c) turns the raw word r into cal_scale * (r * 0.25) +          *)
(* cal_intercept in a high-resolution file and into                        *)
(* cal_scale * floor(r * 0.25) + cal_intercept otherwise, the floor being  *)
(* toward minus infinity: with scale 1 and intercept 0, r = -4 .. 4 give   *)
(* -1,-1,-1,-1,0,0,0,0,1, and -1,-0.75,...,0.75,1 in high resolution.      *)
(* (Values are in sixteenths: 16 is 1.0.)                                  *)
(***************************************************************************)
C4_Scaling ==
    Decoded /\ ret.op = "data" /\ ValidChannel(ret.arg) /\ ret.exc = "none" =>
        \A k \in 1 .. Len(ret.val) :
            LET r == self.npdata[(k - 1) * self.nChannels + ret.arg]
                cs == self.calScaling[ret.arg]
                ci == self.calIntercept[ret.arg]
                hiRes == (FileFlagsLow \div 2) % 2 = 1
                y == ret.val[k]
            IN  cs.ok /\ ci.ok /\ (cs.v * r) % 4 = 0 =>
                    /\ y.ok
                    /\ hiRes => 4 * (y.v - ci.v) = cs.v * r
                    /\ ~hiRes => \E f \in {r \div 4 - 1, r \div 4, r \div 4 + 1} :
                                     4 * f <= r /\ r < 4 * f + 4 /\ y.v = cs.v * f + ci.v
                    /\ cs.v = 16 /\ ci.v = 0 /\ r \in -4 .. 4 =>
                           y.v = IF hiRes THEN 4 * r ELSE 16 * C4_FloorTable[r + 5]

C4_Witness ==
    /\ Decoded /\ ret.op = "data" /\ ret.arg = 1 /\ ret.exc = "none" /\ Len(ret.val) >= 1
    /\ self._HiRes = 0 /\ self.npdata[1] = -3
    /\ self.calScaling[1] = Flt(16) /\ self.calIntercept[1] = Flt(0)
    /\ ret.val[1] = Flt(-16)

(***************************************************************************)
(* C5: data(0) and data(channel_count + 1) both fail with an index error   *)
(* on every decoded Recording; neither returns a sequence of values.       *)
(***************************************************************************)
C5_BadIndexFails ==
    Decoded /\ ret.op = "data" /\ ret.arg \in {0, self.nChannels + 1} =>
        ret.exc = "IndexError"

\* The statement groups of the header, the per-channel lists, and a decode that
\* ends in the header for every buffer shorter than `limit`.
HeaderGroups == {"count", "layout", "sizes", "stamps", "flags"}
ChannelLists ==
    {"scalingSlope", "scalingIntercept", "calScaling", "calIntercept", "engUnits",
     "sampleRateDivisor", "phyChannel"}
NoChannelDataRead ==
    /\ \A a \in ChannelLists : HasAttr(self, a) => self[a] = <<>>
    /\ ~HasAttr(self, "_annotations")
    /\ ~HasAttr(self, "npdata")
FailsInHeader(limit) ==
    Len(fcontents) < limit =>
        /\ pc \in HeaderGroups \cup {"error"}
        /\ pc = "error" => exc.at \in HeaderGroups
        /\ pc = "flags" => ~CanUnpack(fcontents, 100, 2)
        /\ NoChannelDataRead
        /\ wdq = "unbound"

C8_ZeroChannels ==
    /\ HasAttr(self, "nChannels") /\ self.nChannels = 0 =>
           /\ pc \in {"layout", "error"}
           /\ wdq = "unbound"
           /\ pc = "error" /\ Len(fcontents) >= 12 =>
                  exc = [type |-> "ZeroDivisionError", at |-> "layout"]
    /\ wdq = "windaq" => self.nChannels >= 1

C8_Witness ==
    /\ pc = "error" /\ exc.type = "ZeroDivisionError" /\ self.nChannels = 0
    /\ FileCountByte = 32 /\ FileVersion = 143

(***************************************************************************)
(* C9: an annotation block with bytes that are not valid text never        *)
(* aborts the decode (the annotation is replaced by an empty one).         *)
(***************************************************************************)
C9_AnnotationRecovered ==
    ~(pc = "error" /\ exc = [type |-> "UnicodeDecodeError", at |-> "annotations"])

\* The <<offset, width>> of every header field and of every field of a channel
\* entry (relative to the entry) that __init__ reads.
HeaderFields ==
    { <<2, 2>>, <<0, 1>>, <<4, 1>>, <<5, 1>>, <<6, 2>>, <<8, 4>>, <<12, 4>>, <<16, 2>>,
      <<28, 8>>, <<36, 4>>, <<40, 4>>, <<100, 2>> }
EntryFields(packed) ==
    { <<0, 4>>, <<4, 4>>, <<8, 8>>, <<16, 8>>, <<24, 6>>, <<32, 1>> }
        \cup (IF packed THEN { <<31, 1>> } ELSE {})
AllFieldsFit ==
    /\ \A f \in HeaderFields : f[1] + f[2] <= Len(fcontents)
    /\ \A i \in 0 .. self.nChannels - 1 :
           \A f \in EntryFields(fcontents[102] \div 64 % 2 = 1) :
               fcontents[5] + i * fcontents[6] + f[1] + f[2] <= Len(fcontents)

(***************************************************************************)
(* C10: the decode is all-or-nothing for the header and the channel table: *)
(* when any header field or any field of any channel descriptor does not   *)
(* fit the buffer the decode ends in an error and the caller gets no       *)
(* Recording; a Recording that is returned has every field read within     *)
(* the buffer and one descriptor per channel.                              *)
(***************************************************************************)
C10_AllOrNothing ==
    /\ wdq = "windaq" =>
           /\ pc = "done"
           /\ AllFieldsFit
           /\ \A a \in ChannelLists : Len(self[a]) = self.nChannels
    /\ pc = "error" => wdq = "unbound" /\ ret = NoRet
    /\ pc # "done" => wdq = "unbound"

C10_Witness ==
    /\ pc = "error" /\ exc = [type |-> "struct.error", at |-> "channel"]
    /\ Len(self.scalingSlope) = 2 /\ Len(self.phyChannel) = 1
    /\ wdq = "unbound"

\* The byte of the file at `off` bytes into the descriptor of channel entry i
\* (i from 0), the table offset and entry size read from the header bytes.
EntryByte(i, off) == fcontents[fcontents[5] + i * fcontents[6] + off + 1]
EntryTag(i) == [b \in 1 .. 6 |-> EntryByte(i, 24 + b - 1)]

(***************************************************************************)
(* C11: on every decoded Recording, unit(c) and chAnnotation(c) fail with  *)
(* an index error for every c outside 1..channel_count (0 and              *)
(* channel_count + 1 included) and return no string; for c inside the      *)
(* range unit(c) returns the 6-byte unit tag with its nulls removed and    *)
(* the whitespace around it stripped.                                      *)
(***************************************************************************)
C11_BadIndexFails ==
    Decoded /\ ret.op \in {"unit", "chAnnotation"} =>
        /\ ~ValidChannel(ret.arg) => ret.exc = "IndexError" /\ ret.val = <<>>
        /\ ValidChannel(ret.arg) /\ ret.op = "unit" =>
               /\ ret.exc = "none"
               /\ ret.val = Strip(RemoveNulls(EntryTag(ret.arg - 1)))

\* Bit 14 of the flag word at offset 100, and the descriptor fields of entry i
\* decoded from the bytes at the given offsets into the entry.
FilePacked == (fcontents[102] \div 64) % 2 = 1
EntryStart(i) == fcontents[5] + i * fcontents[6]
EntryFloatsAt(i) ==
    /\ self.scalingSlope[i + 1] = DecodeFloat(fcontents, EntryStart(i), 4, 8)
    /\ self.scalingIntercept[i + 1] = DecodeFloat(fcontents, EntryStart(i) + 4, 4, 8)
    /\ self.calScaling[i + 1] = DecodeFloat(fcontents, EntryStart(i) + 8, 8, 11)
    /\ self.calIntercept[i + 1] = DecodeFloat(fcontents, EntryStart(i) + 16, 8, 11)
    /\ self.engUnits[i + 1] = EntryTag(i)

(***************************************************************************)
(* C12 as stated: the descriptor of entry i starts at                      *)
(* channel_table_offset + i * channel_entry_size with slope at 0,          *)
(* intercept at 4, cal_scale at 8, cal_intercept at 16 and the unit tag at *)
(* 24..29; when packed the divisor byte is at 30 and the physical channel  *)
(* at 31; when not packed the divisor is 1 and the physical channel is at  *)
(* 30.                                                                     *)
(***************************************************************************)
C12_Original ==
    Decoded =>
        \A i \in 0 .. self.nChannels - 1 :
            /\ EntryFloatsAt(i)
            /\ self.sampleRateDivisor[i + 1] = IF FilePacked THEN EntryByte(i, 30) ELSE 1
            /\ self.phyChannel[i + 1] = EntryByte(i, IF FilePacked THEN 31 ELSE 30)

(***************************************************************************)
(* C12 as amended: the same start and the same offsets 0, 4, 8, 16 and     *)
(* 24..29; the byte at 30 is never read; when packed the divisor byte is   *)
(* at 31, otherwise the divisor is 1; the physical channel is at 32 in     *)
(* both layouts (its offset does not move).                                *)
(***************************************************************************)
C12_Layout ==
    Decoded =>
        \A i \in 0 .. self.nChannels - 1 :
            /\ EntryFloatsAt(i)
            /\ self.sampleRateDivisor[i + 1] = IF FilePacked THEN EntryByte(i, 31) ELSE 1
            /\ self.phyChannel[i + 1] = EntryByte(i, 32)

C12_Witness ==
    /\ Decoded /\ FilePacked /\ self.nChannels = 2
    /\ EntryByte(0, 30) = 11 /\ EntryByte(1, 30) = 21
    /\ self.sampleRateDivisor = <<12, 22>>
    /\ self.phyChannel = <<13, 23>>
    /\ self.calScaling = <<Flt(16), Flt(32)>>

(***************************************************************************)
(* One decoded object shared by several consumers.  __init__ as a whole:   *)
(* the statement groups in order, up to the first exception.               *)
(***************************************************************************)
\* The loop of line 96 from iteration `channel` on.
RECURSIVE ReadChannels(_, _, _)
ReadChannels(buf, obj, channel) ==
    IF channel >= obj.nChannels THEN [obj |-> obj, err |-> "none"]
    ELSE LET r == ReadChannelInfo(buf, obj, channel)
         IN  IF r.err # "none" THEN r ELSE ReadChannels(buf, r.obj, channel + 1)

\* One statement group of __init__, by the name pc gives it.
RunGroup(group, buf, obj) ==
    CASE group = "count" -> ReadCount(buf, obj)
      [] group = "layout" -> ReadLayout(buf, obj)
      [] group = "sizes" -> ReadSizes(buf, obj)
      [] group = "stamps" -> ReadStamps(buf, obj)
      [] group = "flags" -> ReadFlags(buf, obj)
      [] group = "channel" -> ReadChannels(buf, obj, 0)
      [] group = "annotations" -> ReadAnnotations(buf, obj)
      [] group = "npdata" -> BindData(buf, obj)

RECURSIVE RunGroups(_, _, _)
RunGroups(groups, buf, obj) ==
    IF groups = <<>> THEN [obj |-> obj, err |-> "none"]
    ELSE LET r == RunGroup(Head(groups), buf, obj)
         IN  IF r.err # "none" THEN r ELSE RunGroups(Tail(groups), buf, r.obj)

Construct(buf) ==
    RunGroups(<<"count", "layout", "sizes", "stamps", "flags", "channel", "annotations",
                "npdata">>, buf, NoAttrs)

\* The files the consumers share: both resolutions, a unit tag with spaces and
\* one with a non-ASCII byte, one annotation per channel and too few of them.
SharedFiles ==
    UNION { { [BaseFile EXCEPT !.nent = n, !.cb = n, !.words = Ramp(MaxWords, 0 - MaxRaw),
                               !.flags = v[1], !.unit = v[2], !.anno = v[3], !.ts = 4] :
                v \in { <<0, <<32, 86, 0, 32, 0, 0>>, AnnoFor(n)>>,
                        <<2, <<86, 200, 0, 0, 0, 0>>, <<97>> >> } } :
            n \in {1, MaxChannels} }

\* The state after the constructor returned on a file it decodes.
SharedInit ==
    /\ fcontents \in { b \in { FileBytes(p) : p \in SharedFiles } : Construct(b).err = "none" }
    /\ self = Construct(fcontents).obj
    /\ pc = "done"
    /\ exc = NoExc
    /\ wdq = "windaq"
    /\ ret = NoRet
    /\ calls = NoCalls
    /\ analyzer = NoAnalyzer
    /\ detect_pulses = NoFrame

\* Consumer t's frame becomes fr; nothing else is assigned by an accessor.
SetCall(t, fr) ==
    /\ calls' = [calls EXCEPT ![t] = fr]
    /\ UNCHANGED <<fcontents, self, pc, exc, wdq, ret, analyzer, detect_pulses>>

Return(fr, e, v) == [fr EXCEPT !.at = "returned", !.exc = e, !.val = v]

\* A consumer calls an accessor of wdq.
CallBegin ==
    \E t \in Consumers :
        /\ calls[t].at = "idle"
        /\ \E op \in {"data", "time", "unit", "chAnnotation"} :
               \E channelNumber \in (IF op = "time" THEN {0} ELSE ChannelArgs) :
                   SetCall(t, [IdleCall EXCEPT !.op = op, !.channelNumber = channelNumber,
                                               !.at = CASE op = "data" -> "slice"
                                                        [] op = "time" -> "arange"
                                                        [] op = "unit" -> "index"
                                                        [] op = "chAnnotation" -> "part"])

\* Line 130.
DataSlice ==
    \E t \in Consumers :
        /\ calls[t].at = "slice"
        /\ SetCall(t, [calls[t] EXCEPT !.data = ChannelWords(self, calls[t].channelNumber),
                                       !.at = "scale"])

\* Lines 132-135 with the scaled array kept on the object as well.
DataScaleCaching ==
    \E t \in Consumers :
        /\ calls[t].at = "scale"
        /\ LET temp == [k \in 1 .. Len(calls[t].data) |->
                           ScaleRaw(self._HiRes, calls[t].data[k])]
           IN  /\ calls' = [calls EXCEPT ![t].temp = temp, ![t].at = "calibrate"]
               /\ self' = SetAttr(self, "temp", temp)
        /\ UNCHANGED <<fcontents, pc, exc, wdq, ret, analyzer, detect_pulses>>

\* Lines 132-135.
DataScale ==
    \E t \in Consumers :
        /\ calls[t].at = "scale"
        /\ SetCall(t, [calls[t] EXCEPT
                          !.temp = [k \in 1 .. Len(calls[t].data) |->
                                       ScaleRaw(self._HiRes, calls[t].data[k])],
                          !.at = "calibrate"])

\* Lines 137-138.
DataCalibrate ==
    \E t \in Consumers :
        /\ calls[t].at = "calibrate"
        /\ LET fr == calls[t]
               at == fr.channelNumber - 1
           IN  IF ~PyIndexOK(self.calScaling, at)
               THEN SetCall(t, Return(fr, "IndexError", <<>>))
               ELSE SetCall(t, Return(fr, "none",
                        [k \in 1 .. Len(fr.temp) |->
                            FAdd(FMul(PyIndex(self.calScaling, at), fr.temp[k]),
                                 PyIndex(self.calIntercept, at))]))

\* Line 144.
TimeArange ==
    \E t \in Consumers :
        /\ calls[t].at = "arange"
        /\ SetCall(t, Return(calls[t], "none", TimeOf(self)))

\* Lines 156-157: unit = '' and the tag the loop runs over.
UnitIndex ==
    \E t \in Consumers :
        /\ calls[t].at = "index"
        /\ LET fr == calls[t]
           IN  IF ~PyIndexOK(self.engUnits, fr.channelNumber - 1)
               THEN SetCall(t, Return(fr, "IndexError", <<>>))
               ELSE SetCall(t, [fr EXCEPT !.tag = PyIndex(self.engUnits, fr.channelNumber - 1),
                                          !.unit = <<>>, !.at = "decode"])

\* Line 158, once per byte of the tag: the bytes decoded so far are Len(unit).
UnitDecode ==
    \E t \in Consumers :
        /\ calls[t].at = "decode"
        /\ LET fr == calls[t]
               b == fr.tag[Len(fr.unit) + 1]
           IN  IF Len(fr.unit) = Len(fr.tag) THEN SetCall(t, [fr EXCEPT !.at = "strip"])
               ELSE IF b >= 128 THEN SetCall(t, Return(fr, "UnicodeDecodeError", <<>>))
               ELSE SetCall(t, [fr EXCEPT !.unit = Append(@, b)])

\* Lines 163-164.
UnitStrip ==
    \E t \in Consumers :
        /\ calls[t].at = "strip"
        /\ SetCall(t, Return(calls[t], "none", Strip(RemoveNulls(calls[t].unit))))

\* Line 170.
ChAnnotationPart ==
    \E t \in Consumers :
        /\ calls[t].at = "part"
        /\ LET fr == calls[t]
           IN  IF ~PyIndexOK(self._annotations, fr.channelNumber - 1)
               THEN SetCall(t, Return(fr, "IndexError", <<>>))
               ELSE SetCall(t, Return(fr, "none",
                                      PyIndex(self._annotations, fr.channelNumber - 1)))

\* The consumer has used what the call returned or raised.
CallEnd ==
    \E t \in Consumers :
        /\ calls[t].at = "returned"
        /\ SetCall(t, IdleCall)

SharedNext ==
    \/ CallBegin
    \/ DataSlice
    \/ DataScale
    \/ DataCalibrate
    \/ TimeArange
    \/ UnitIndex
    \/ UnitDecode
    \/ UnitStrip
    \/ ChAnnotationPart
    \/ CallEnd

SharedSpec == SharedInit /\ [][SharedNext]_vars

\* What the call op(channelNumber) returns or raises when it runs alone.
Alone(op, channelNumber) ==
    CASE op = "data" -> DataOf(self, channelNumber)
      [] op = "time" -> [exc |-> "none", val |-> TimeOf(self)]
      [] op = "unit" -> UnitOf(self, channelNumber)
      [] op = "chAnnotation" -> AnnotationOf(self, channelNumber)

(***************************************************************************)
(* C13: no accessor changes the Recording: in every step of every          *)
(* interleaving of data, time, unit and chAnnotation calls of several      *)
(* consumers on one shared object, the file bytes and every attribute of   *)
(* the object (header fields, descriptors, annotations, raw samples) stay  *)
(* as they are, and a call that returns gives what the same call gives     *)
(* when it runs alone, whatever calls came before or run beside it.        *)
(***************************************************************************)
C13_AccessorsPure ==
    [][ /\ self' = self
        /\ fcontents' = fcontents
        /\ \A t \in Consumers :
               calls'[t].at = "returned" =>
                   /\ calls'[t].exc = Alone(calls'[t].op, calls'[t].channelNumber).exc
                   /\ calls'[t].val = Alone(calls'[t].op, calls'[t].channelNumber).val
      ]_vars

C13_Witness ==
    /\ calls[1].op = "data" /\ calls[1].channelNumber = 1 /\ calls[1].at = "calibrate"
    /\ calls[2].op = "data" /\ calls[2].channelNumber = 2 /\ calls[2].at = "returned"
    /\ calls[2].exc = "none" /\ Len(calls[2].val) = 2
    /\ calls[1].temp # <<>> /\ calls[1].temp # calls[2].val

\* The header size the file states (a signed 16-bit field at offset 6), the
\* raw word at position w of the block that starts there, and the positions
\* of npdata that the slice of line 130 takes for channelNumber.
FileHeadSize == SignedLE(fcontents, 6, 2)
BlockWord(w) == SignedLE(fcontents, FileHeadSize + 2 * w, 2)
SlicedPositions(channelNumber) ==
    ChannelWords([self EXCEPT !.npdata = [w \in 1 .. Len(@) |-> w - 1]], channelNumber)

(***************************************************************************)
(* C14: for every channel c in 1..channel_count and every sample index k   *)
(* in 0..sample_count_per_channel-1, the k-th value of data(c) is computed *)
(* (scaled by 0.25, floored unless high resolution, calibrated with c's    *)
(* scale and intercept) from the raw 16-bit word at position               *)
(* k * channel_count + (c - 1) of the block that starts at byte offset     *)
(* header_size; each of the channel_count * sample_count_per_channel words *)
(* lies within the file and belongs to exactly one (channel, sample) pair, *)
(* and these are all the words of the block when data_size is a multiple   *)
(* of 2 * channel_count.                                                   *)
(***************************************************************************)
C14_Interleaving ==
    Decoded /\ ret.op = "data" /\ ValidChannel(ret.arg) =>
        LET n == self.nChannels
            count == FileDataSize \div (2 * n)
        IN  /\ ret.exc = "none"
            /\ Len(ret.val) >= count
            /\ FileHeadSize >= 0 /\ FileHeadSize + 2 * n * count <= Len(fcontents)
            /\ \A k \in 0 .. count - 1 :
                   ret.val[k + 1] =
                       FAdd(FMul(self.calScaling[ret.arg],
                                 ScaleRaw(self._HiRes, BlockWord(k * n + (ret.arg - 1)))),
                            self.calIntercept[ret.arg])
            /\ \A w \in 0 .. n * count - 1 :
                   Cardinality({ ck \in (1 .. n) \X (0 .. count - 1) :
                                    SlicedPositions(ck[1])[ck[2] + 1] = w }) = 1
            /\ FileDataSize % (2 * n) = 0 => n * count = Len(self.npdata)

C14_Witness ==
    /\ Decoded /\ self.nChannels = 2 /\ self._HiRes # 0 /\ FileHeadSize = 174
    /\ self.npdata = <<-4, -3, -2, -1>>
    /\ self.calScaling = <<Flt(16), Flt(32)>> /\ self.calIntercept = <<Flt(0), Flt(-16)>>
    /\ ret.op = "data" /\ ret.arg = 2 /\ ret.val = <<Flt(-40), Flt(-24)>>

\* The trailer and annotation sizes the file states, and the annotation_size
\* bytes of the file from offset header_size + data_size + trailer_size on.
FileTrailerSize == fcontents[13] + 256 * fcontents[14] + 65536 * fcontents[15]
FileAnnoSize == fcontents[17] + 256 * fcontents[18]
FileAnnoBytes ==
    [b \in 1 .. FileAnnoSize |->
        fcontents[FileHeadSize + FileDataSize + FileTrailerSize + b]]

(***************************************************************************)
(* C15: the decode reads exactly annotation_size bytes from byte offset    *)
(* header_size + data_size + trailer_size and splits them on the null      *)
(* byte; chAnnotation(c) for c in 1..channel_count returns the c-th part   *)
(* in file order; a split with fewer parts than channel_count is a decode  *)
(* error, so no decoded Recording has fewer parts than channels.           *)
(***************************************************************************)
C15_AnnotationParts ==
    Decoded =>
        /\ self._annotations = SplitOn(FileAnnoBytes, 0, <<>>)
        /\ Len(self._annotations) >= self.nChannels
        /\ ret.op = "chAnnotation" /\ ValidChannel(ret.arg) =>
               ret.exc = "none" /\ ret.val = SplitOn(FileAnnoBytes, 0, <<>>)[ret.arg]

(***************************************************************************)
(* PulseAnalyzer.detect_pulses of pulse_analyzer.py.  analyzer is the      *)
(* object (its data frame df and its list pulses); detect_pulses is the    *)
(* frame of the call: its arguments, its locals under their names, the     *)
(* statement it is at, and what it raised or returned.  Currents are whole *)
(* amperes; times, min_pulse_width and min_pulse_separation are in         *)
(* quarters of a second; threshold is in hundredths of an ampere;          *)
(* avg_current is the exact quotient [num, den] and pulse_energy is in     *)
(* eighths of an ampere-second.                                            *)
(***************************************************************************)
Levels == {0, 1, 3}
Percents == {10, 50}
Widths == {0, 2}
Separations == {0, 3}
TimeSteps == {0, 1, 2}

\* The data frames load_data leaves in df: up to MaxSamples rows, the times
\* evenly spaced.
DataFrames ==
    UNION { { [Current |-> cur, Time_seconds |-> [r \in 1 .. n |-> (r - 1) * d]] :
                cur \in [1 .. n -> Levels], d \in TimeSteps } :
            n \in 0 .. MaxSamples }

PulseInit ==
    /\ analyzer \in { [df |-> d, pulses |-> <<>>] : d \in DataFrames }
    /\ detect_pulses = NoFrame
    /\ fcontents = <<>>
    /\ self = NoAttrs
    /\ pc = "none"
    /\ exc = NoExc
    /\ wdq = "unbound"
    /\ ret = NoRet
    /\ calls = NoCalls

\* numpy.max and numpy.argmax (the first index of the maximum, from 0).
SeqMax(seq) == CHOOSE m \in { seq[r] : r \in 1 .. Len(seq) } : \A r \in 1 .. Len(seq) : seq[r] <= m
ArgMax(seq) == (CHOOSE r \in 1 .. Len(seq) : seq[r] = SeqMax(seq) /\ \A q \in 1 .. r - 1 : seq[q] # SeqMax(seq)) - 1

RECURSIVE SeqSum(_)
SeqSum(seq) == IF seq = <<>> THEN 0 ELSE Head(seq) + SeqSum(Tail(seq))

\* numpy.trapz(y, x), eight times its value with x in quarters.
Trapz(y, x) == SeqSum([r \in 1 .. Len(y) - 1 |-> (x[r + 1] - x[r]) * (y[r] + y[r + 1])])

\* seq[a:b+1] of Python for 0 <= a <= b < len(seq).
Between(seq, a, b) == SubSeq(seq, a + 1, b + 1)

Raise(fr, type, line) == [fr EXCEPT !.at = "raised", !.exc = [type |-> type, line |-> line]]

AnalyzerStep(fr) ==
    /\ detect_pulses' = fr
    /\ UNCHANGED <<analyzer, fcontents, self, pc, exc, wdq, ret, calls>>

\* The call, with the arguments bound.
CallDetectPulses ==
    /\ detect_pulses = NoFrame
    /\ \E threshold_percent \in Percents, min_pulse_width \in Widths,
          min_pulse_separation \in Separations :
           AnalyzerStep([at |-> "threshold", threshold_percent |-> threshold_percent,
                         min_pulse_width |-> min_pulse_width,
                         min_pulse_separation |-> min_pulse_separation,
                         current |-> <<>>, time |-> <<>>, threshold |-> 0,
                         above_threshold |-> <<>>, pulse_starts |-> <<>>,
                         pulse_ends |-> <<>>, in_pulse |-> FALSE, i |-> 0,
                         min_width_samples |-> 0, min_separation_samples |-> 0,
                         filtered_pulses |-> <<>>, zipped |-> 0,
                         exc |-> [type |-> "none", line |-> 0], ret |-> <<>>])

\* Lines 61-76: numpy.max raises ValueError on an empty array; current >
\* max_current * (threshold_percent / 100), both sides times 100.
Threshold ==
    /\ detect_pulses # NoFrame /\ detect_pulses.at = "threshold"
    /\ LET fr == detect_pulses
           current == analyzer.df.Current
           threshold == SeqMax(current) * fr.threshold_percent
       IN  IF current = <<>>
           THEN AnalyzerStep(Raise([fr EXCEPT !.time = analyzer.df.Time_seconds],
                                   "ValueError", 65))
           ELSE AnalyzerStep([fr EXCEPT !.current = current,
                                        !.time = analyzer.df.Time_seconds,
                                        !.threshold = threshold,
                                        !.above_threshold =
                                            [r \in 1 .. Len(current) |->
                                                100 * current[r] > threshold],
                                        !.at = "scan"])

\* Lines 77-85, one iteration of the loop.
Scan ==
    /\ detect_pulses # NoFrame /\ detect_pulses.at = "scan"
    /\ detect_pulses.i < Len(detect_pulses.above_threshold)
    /\ LET fr == detect_pulses
           above == fr.above_threshold[fr.i + 1]
       IN  AnalyzerStep(
               IF above /\ ~fr.in_pulse
               THEN [fr EXCEPT !.pulse_starts = Append(@, fr.i), !.in_pulse = TRUE,
                               !.i = @ + 1]
               ELSE IF ~above /\ fr.in_pulse
               THEN [fr EXCEPT !.pulse_ends = Append(@, fr.i - 1), !.in_pulse = FALSE,
                               !.i = @ + 1]
               ELSE [fr EXCEPT !.i = @ + 1])

\* The pulse the data ends in left without an end.
ClosePulseNever(fr) == fr.pulse_ends

\* Lines 88-89.
ClosePulse(fr) ==
    IF fr.in_pulse THEN Append(fr.pulse_ends, Len(fr.current) - 1) ELSE fr.pulse_ends

\* The loop is over: lines 88-89.
Close ==
    /\ detect_pulses # NoFrame /\ detect_pulses.at = "scan"
    /\ detect_pulses.i = Len(detect_pulses.above_threshold)
    /\ AnalyzerStep([detect_pulses EXCEPT !.pulse_ends = ClosePulse(detect_pulses),
                                          !.at = "rates"])

\* Lines 92-94: time[1] raises IndexError on fewer than two rows; a zero time
\* step makes sample_rate infinite, and int() of the infinite product (or of
\* the NaN 0 * inf) raises at line 93.
Rates ==
    /\ detect_pulses # NoFrame /\ detect_pulses.at = "rates"
    /\ LET fr == detect_pulses
           step == fr.time[2] - fr.time[1]
       IN  IF Len(fr.time) < 2 THEN AnalyzerStep(Raise(fr, "IndexError", 92))
           ELSE IF step = 0
           THEN AnalyzerStep(Raise(fr, IF fr.min_pulse_width = 0 THEN "ValueError"
                                       ELSE "OverflowError", 93))
           ELSE AnalyzerStep([fr EXCEPT
                    !.min_width_samples = IntOfQuotient(fr.min_pulse_width, step),
                    !.min_separation_samples = IntOfQuotient(fr.min_pulse_separation, step),
                    !.at = "filter"])

\* The end of the candidate before this one, retained or not.
PrevEndOfCandidate(fr) == fr.pulse_ends[fr.zipped]

\* Line 106.
PrevEnd(fr) == fr.filtered_pulses[Len(fr.filtered_pulses)].end_idx

\* The number of the candidate in place of the number of the retained pulse.
PulseNumberOfCandidate(fr) == fr.zipped + 1

\* Line 116.
PulseNumber(fr) == Len(fr.filtered_pulses) + 1

\* Lines 110-127.
PulseInfo(fr, start_idx, end_idx) ==
    LET pulse_current == Between(fr.current, start_idx, end_idx)
        peak_idx == start_idx + ArgMax(pulse_current)
    IN  [pulse_number |-> PulseNumber(fr),
         start_idx |-> start_idx,
         end_idx |-> end_idx,
         peak_idx |-> peak_idx,
         start_time |-> fr.time[start_idx + 1],
         end_time |-> fr.time[end_idx + 1],
         peak_time |-> fr.time[peak_idx + 1],
         duration |-> fr.time[end_idx + 1] - fr.time[start_idx + 1],
         peak_current |-> fr.current[peak_idx + 1],
         avg_current |-> [num |-> SeqSum(pulse_current), den |-> Len(pulse_current)],
         pulse_energy |-> Trapz(pulse_current, Between(fr.time, start_idx, end_idx))]

\* Lines 97-129, one iteration of the loop over zip(pulse_starts, pulse_ends).
Filter ==
    /\ detect_pulses # NoFrame /\ detect_pulses.at = "filter"
    /\ detect_pulses.zipped < Min(Len(detect_pulses.pulse_starts), Len(detect_pulses.pulse_ends))
    /\ LET fr == detect_pulses
           start_idx == fr.pulse_starts[fr.zipped + 1]
           end_idx == fr.pulse_ends[fr.zipped + 1]
           pulse_width == end_idx - start_idx
           next == [fr EXCEPT !.zipped = @ + 1]
       IN  AnalyzerStep(
               IF pulse_width < fr.min_width_samples THEN next
               ELSE IF fr.filtered_pulses # <<>>
                       /\ start_idx - PrevEnd(fr) < fr.min_separation_samples
               THEN next
               ELSE [next EXCEPT !.filtered_pulses = Append(@, PulseInfo(fr, start_idx, end_idx))])

\* Lines 131-134.
ReturnPulses ==
    /\ detect_pulses # NoFrame /\ detect_pulses.at = "filter"
    /\ detect_pulses.zipped = Min(Len(detect_pulses.pulse_starts), Len(detect_pulses.pulse_ends))
    /\ analyzer' = [analyzer EXCEPT !.pulses = detect_pulses.filtered_pulses]
    /\ detect_pulses' = [detect_pulses EXCEPT !.at = "returned",
                                              !.ret = detect_pulses.filtered_pulses]
    /\ UNCHANGED <<fcontents, self, pc, exc, wdq, ret, calls>>

PulseNext ==
    \/ CallDetectPulses
    \/ Threshold
    \/ Scan
    \/ Close
    \/ Rates
    \/ Filter
    \/ ReturnPulses

PulseSpec == PulseInit /\ [][PulseNext]_vars

\* The boundary scan is over; the samples above the threshold, judged from the
\* data frame and the argument (r from 0); the candidates as <<start, end>>.
Scanned ==
    \/ detect_pulses.at \in {"rates", "filter", "returned"}
    \/ detect_pulses.at = "raised" /\ detect_pulses.exc.line \in {92, 93}
Rows == Len(analyzer.df.Current)
IsAbove(r) ==
    100 * analyzer.df.Current[r + 1]
        > SeqMax(analyzer.df.Current) * detect_pulses.threshold_percent
Candidate(q) == <<detect_pulses.pulse_starts[q], detect_pulses.pulse_ends[q]>>

(***************************************************************************)
(* C16: after the boundary scan of detect_pulses, over any sequence of     *)
(* samples above and below the threshold (data that ends in a pulse        *)
(* included), pulse_starts and pulse_ends have the same length,            *)
(* start_i <= end_i < start_(i+1), every sample of [start_i, end_i] is     *)
(* above the threshold, and every sample above the threshold lies in       *)
(* exactly one interval: the intervals are the maximal runs.               *)
(***************************************************************************)
C16_BoundaryScan ==
    Scanned =>
        LET starts == detect_pulses.pulse_starts
            ends == detect_pulses.pulse_ends
        IN  /\ Len(starts) = Len(ends)
            /\ \A q \in 1 .. Len(starts) : 0 <= starts[q] /\ starts[q] <= ends[q] /\ ends[q] < Rows
            /\ \A q \in 1 .. Len(starts) - 1 : ends[q] < starts[q + 1]
            /\ \A q \in 1 .. Len(starts) : \A r \in starts[q] .. ends[q] : IsAbove(r)
            /\ \A r \in 0 .. Rows - 1 :
                   IsAbove(r) =>
                       Cardinality({ q \in 1 .. Len(starts) : starts[q] <= r /\ r <= ends[q] }) = 1
            /\ \A q \in 1 .. Len(starts) :
                   /\ starts[q] = 0 \/ ~IsAbove(starts[q] - 1)
                   /\ ends[q] = Rows - 1 \/ ~IsAbove(ends[q] + 1)

C16_Witness ==
    /\ detect_pulses.at = "rates"
    /\ analyzer.df.Current = <<0, 3, 3, 0, 1>> /\ detect_pulses.threshold_percent = 10
    /\ detect_pulses.in_pulse
    /\ detect_pulses.pulse_starts = <<1, 4>> /\ detect_pulses.pulse_ends = <<2, 4>>

\* The filter is running or over; the sample counts the arguments and the time
\* step give; the retained pulse that comes last before sample `start`.
Filtering == detect_pulses.at \in {"filter", "returned"}
TimeStep == analyzer.df.Time_seconds[2] - analyzer.df.Time_seconds[1]
WidthSamples == detect_pulses.min_pulse_width \div TimeStep
SeparationSamples == detect_pulses.min_pulse_separation \div TimeStep
Retained(q) ==
    \E x \in 1 .. Len(detect_pulses.filtered_pulses) :
        /\ detect_pulses.filtered_pulses[x].start_idx = Candidate(q)[1]
        /\ detect_pulses.filtered_pulses[x].end_idx = Candidate(q)[2]
RetainedBefore(start) ==
    { x \in 1 .. Len(detect_pulses.filtered_pulses) :
        detect_pulses.filtered_pulses[x].start_idx < start }
LastRetainedBefore(start) ==
    detect_pulses.filtered_pulses[CHOOSE x \in RetainedBefore(start) :
                                      \A y \in RetainedBefore(start) : y <= x]

(***************************************************************************)
(* C17: every pulse detect_pulses retains, and so every pulse it returns,  *)
(* has end_idx - start_idx >= min_width_samples, and of two consecutive    *)
(* ones the later starts at least min_separation_samples after the earlier *)
(* ends; a candidate is dropped only for being too narrow or too close to  *)
(* the last retained pulse before it (not to the last candidate), and      *)
(* every candidate too close to the last retained pulse is dropped.        *)
(***************************************************************************)
C17_WidthAndSeparation ==
    Filtering =>
        LET kept == detect_pulses.filtered_pulses
        IN  /\ detect_pulses.min_width_samples = WidthSamples
            /\ detect_pulses.min_separation_samples = SeparationSamples
            /\ \A x \in 1 .. Len(kept) : kept[x].end_idx - kept[x].start_idx >= WidthSamples
            /\ \A x \in 1 .. Len(kept) - 1 :
                   kept[x + 1].start_idx - kept[x].end_idx >= SeparationSamples
            /\ \A x \in 1 .. Len(kept) :
                   \E q \in 1 .. detect_pulses.zipped :
                       Candidate(q) = <<kept[x].start_idx, kept[x].end_idx>>
            /\ \A q \in 1 .. detect_pulses.zipped :
                   LET tooNarrow == Candidate(q)[2] - Candidate(q)[1] < WidthSamples
                       tooClose ==
                           /\ RetainedBefore(Candidate(q)[1]) # {}
                           /\ Candidate(q)[1] - LastRetainedBefore(Candidate(q)[1]).end_idx
                                  < SeparationSamples
                   IN  Retained(q) <=> ~tooNarrow /\ ~tooClose
            /\ detect_pulses.at = "returned" =>
                   analyzer.pulses = kept /\ detect_pulses.ret = kept

C17_Witness ==
    /\ detect_pulses.at = "returned"
    /\ detect_pulses.pulse_starts = <<0, 2, 4>> /\ detect_pulses.pulse_ends = <<0, 2, 5>>
    /\ detect_pulses.min_width_samples = 0 /\ detect_pulses.min_separation_samples = 3
    /\ Len(analyzer.pulses) = 2
    /\ analyzer.pulses[1].end_idx = 0 /\ analyzer.pulses[2].start_idx = 4

(***************************************************************************)
(* C18: the pulses detect_pulses returns are numbered 1, 2, ..., k with no *)
(* gap and no repeat, in increasing order of start_idx, candidates dropped *)
(* or not; each has start_idx <= peak_idx <= end_idx and peak_current the  *)
(* maximum of the samples of [start_idx, end_idx], peak_idx being the      *)
(* first index where it is attained.                                       *)
(***************************************************************************)
C18_NumberingAndPeak ==
    Filtering =>
        LET kept == detect_pulses.filtered_pulses
            current == analyzer.df.Current
        IN  /\ \A x \in 1 .. Len(kept) : kept[x].pulse_number = x
            /\ \A x \in 1 .. Len(kept) - 1 : kept[x].start_idx < kept[x + 1].start_idx
            /\ \A x \in 1 .. Len(kept) :
                   /\ kept[x].start_idx <= kept[x].peak_idx
                   /\ kept[x].peak_idx <= kept[x].end_idx
                   /\ kept[x].peak_current = current[kept[x].peak_idx + 1]
                   /\ \A r \in kept[x].start_idx .. kept[x].end_idx :
                          /\ current[r + 1] <= kept[x].peak_current
                          /\ r < kept[x].peak_idx => current[r + 1] < kept[x].peak_current
            /\ detect_pulses.at = "returned" => detect_pulses.ret = kept

C18_Witness ==
    /\ detect_pulses.at = "returned"
    /\ analyzer.df.Current = <<3, 3, 0, 1, 0, 3>>
    /\ Len(detect_pulses.pulse_starts) = 3
    /\ Len(detect_pulses.ret) = 2
    /\ detect_pulses.ret[1].peak_idx = 0 /\ detect_pulses.ret[1].end_idx = 1
    /\ detect_pulses.ret[2].pulse_number = 2 /\ detect_pulses.ret[2].start_idx = 5

=============================================================================
